---- MODULE Spec2Model ----
(***************************************************************************)
(* The stack-language compiler of src/bfconstructor/main.rs (scope,        *)
(* process_cmd_list, process_cmd, append_code and the primitive emitters)  *)
(* and the tape executor of src/main.rs (read_program,                     *)
(* find_matching_brackets, interprete).                                    *)
(*                                                                         *)
(* Text is a sequence of one-character strings.  A usize value is kept as  *)
(* the representative of its residue modulo 2^64 of least magnitude: a     *)
(* negative representative -k stands for 2^64 - k, the value a wrapping    *)
(* subtraction leaves in a build without overflow checks.                  *)
(***************************************************************************)
EXTENDS Integers, Sequences, FiniteSets, TLC

VARIABLES
    args,       \* scope's arguments: letvars, cmds, indent, indentsize
    build,      \* the build profile: overflow_checks
    opt,        \* the executor's options: cells, nowrap, null, run
    pc,         \* "let" | "compile" | "done" | "panic" | "run" | "halt" | "error"
    frames,     \* the activations of process_cmd_list, outermost first
    letidx,     \* how many of letvars scope's loop has declared
    err,        \* the panic raised by the compiler ("none" while there is none)
    result,     \* the CompilerState scope returned (NoResult before, and after a panic)
    nodes,      \* instructions drawn so far for the open places of the tree
    last,       \* the instruction process_cmd handled last, with the depth it met
    program,    \* Vec<Progr> of read_program, brackets matched
    tape,       \* interprete: the cells
    ptr,        \* interprete: the pointer
    ip,         \* interprete: i
    written,    \* the bytes '.' has printed, in order
    rerr,       \* the executor's error ("none" while there is none)
    first       \* how an earlier call of scope with the same arguments ended

vars == <<args, build, opt, pc, frames, letidx, err, result, nodes, last,
          program, tape, ptr, ip, written, rerr, first>>

compilerVars == <<frames, letidx, err, result, nodes, last>>
runVars == <<program, tape, ptr, ip, written, rerr>>

-----------------------------------------------------------------------------
(* Bounds of the model *)

\* instructions one compilation may draw for the open places of its tree
MaxNodes == 2
\* the largest indent argument scope is called with
MaxIndent0 == 2
\* the executor's -c option in the runs of compiled programs
TapeCells == 8
\* the longest program text handed to the executor directly
MaxText == 3
\* the largest -c option in the runs of those texts
MaxCells == 2

-----------------------------------------------------------------------------
(* Text *)

SP == " "
NL == "\n"

\* s.repeat(n) for a count that fits; callers check the capacity first
replicate(n, s) ==
    IF n <= 0 \/ Len(s) = 0 THEN <<>>
    ELSE [k \in 1..(n * Len(s)) |-> s[((k - 1) % Len(s)) + 1]]

Digit(d) == CASE d = 0 -> "0" [] d = 1 -> "1" [] d = 2 -> "2" [] d = 3 -> "3"
              [] d = 4 -> "4" [] d = 5 -> "5" [] d = 6 -> "6" [] d = 7 -> "7"
              [] d = 8 -> "8" [] OTHER -> "9"

RECURSIVE to_string(_)
\* the decimal digits of a non-negative integer
to_string(n) == IF n < 10 THEN <<Digit(n)>>
                ELSE to_string(n \div 10) \o <<Digit(n % 10)>>

\* {: <12}: left-aligned in a field of 12, never cut
pad12(s) == s \o replicate(12 - Len(s), <<SP>>)

number(x) == replicate(x, <<"+">>)

PrimitiveChars == {"+", "-", "<", ">", ".", ",", "[", "]"}

-----------------------------------------------------------------------------
(* Fallible values: a panic unwinds through every caller *)

Ok(v) == [err |-> "none", val |-> v]
Fail(e) == [err |-> e, val |-> <<>>]

\* a - b on usize operands a, b >= 0
usize_sub(a, b, oc) ==
    IF a >= b THEN Ok(a - b)
    ELSE IF oc THEN Fail("ArithmeticOverflow")
    ELSE Ok(a - b)

\* str::repeat: a count above isize::MAX is a capacity overflow
repeat_checked(n, s) ==
    IF n < 0 /\ Len(s) > 0 THEN Fail("CapacityOverflow") ELSE Ok(replicate(n, s))

COMMENT_WIDTH == 2

make_indent(indent, indentsize) == repeat_checked(indent * indentsize, <<SP>>)

\* make_indent(COMMENT_WIDTH-indent, indentsize)
make_tail(indent, indentsize, oc) ==
    LET w == usize_sub(COMMENT_WIDTH, indent, oc)
    IN  IF w.err # "none" THEN w ELSE make_indent(w.val, indentsize)

-----------------------------------------------------------------------------
(* Primitive emitter *)

\* the transfer falls one cell short of the slot
move_left_short(n) ==
    IF n < 0 THEN Fail("CapacityOverflow")
    ELSE Ok(replicate(n - 1, <<"<">>) \o <<"[", "-", "]">>
            \o replicate(n - 1, <<">">>) \o <<"[">> \o replicate(n - 1, <<"<">>)
            \o <<"+">> \o replicate(n - 1, <<">">>) \o <<"-", "]">>)

move_left(n) ==
    IF n < 0 THEN Fail("CapacityOverflow")
    ELSE Ok(replicate(n, <<"<">>) \o <<"[", "-", "]">> \o replicate(n, <<">">>)
            \o <<"[">> \o replicate(n, <<"<">>) \o <<"+">>
            \o replicate(n, <<">">>) \o <<"-", "]">>)

\* the destination is not cleared before the transfer
move_right_keep(n) ==
    IF n < 0 THEN Fail("CapacityOverflow")
    ELSE Ok(replicate(n, <<"<">>) \o <<"[">>
            \o replicate(n, <<">">>) \o <<"+">> \o replicate(n, <<"<">>)
            \o <<"-", "]">> \o replicate(n, <<">">>))

move_right(n) ==
    IF n < 0 THEN Fail("CapacityOverflow")
    ELSE Ok(<<"[", "-", "]">> \o replicate(n, <<"<">>) \o <<"[">>
            \o replicate(n, <<">">>) \o <<"+">> \o replicate(n, <<"<">>)
            \o <<"-", "]">> \o replicate(n, <<">">>))

\* the value is moved to the right, the source is not rebuilt
copy_right_destructive(n) ==
    IF n < 0 THEN Fail("CapacityOverflow")
    ELSE Ok(<<"[", "-", "]">> \o replicate(n, <<"<">>) \o <<"[">>
            \o replicate(n, <<">">>) \o <<"+">>
            \o replicate(n, <<"<">>) \o <<"-", "]">>
            \o replicate(n, <<">">>) \o <<"<">>)

copy_right(n) ==
    IF n < 0 THEN Fail("CapacityOverflow")
    ELSE Ok(<<"[", "-", "]">> \o replicate(n, <<"<">>) \o <<"[">>
            \o replicate(n, <<">">>) \o <<"+", ">", "+", "<">>
            \o replicate(n, <<"<">>) \o <<"-", "]">>
            \o replicate(n + 1, <<">">>) \o <<"[">>
            \o replicate(n + 1, <<"<">>) \o <<"+">>
            \o replicate(n + 1, <<">">>) \o <<"-", "]", "<">> \o <<"<">>)

-----------------------------------------------------------------------------
(* Compiler state *)

NoEnv == [v \in {} |-> 0]

\* the output of the call before is still in the buffer
DefaultState_stale ==
    [env |-> NoEnv, next_cell |-> 0,
     code |-> IF pc = "done" THEN result.code ELSE <<>>]

DefaultState == [env |-> NoEnv, next_cell |-> 0, code |-> <<>>]

\* every name is given slot 0
env_insert_zero(env, var, idx) ==
    [v \in DOMAIN env \cup {var} |-> IF v = var THEN 0 ELSE env[v]]

env_insert(env, var, idx) ==
    [v \in DOMAIN env \cup {var} |-> IF v = var THEN idx ELSE env[v]]

adr_local(state, var, oc) ==
    IF var \in DOMAIN state.env
    THEN usize_sub(state.next_cell, state.env[var], oc)
    ELSE Fail("UndefinedVariable")

\* "/* {indent}{cmd: <12}{tail} */": the comment that opens a line
comment(cmd, indent, indentsize, oc) ==
    LET ind == make_indent(indent, indentsize)
        tl  == make_tail(indent, indentsize, oc)
    IN  IF ind.err # "none" THEN ind
        ELSE IF tl.err # "none" THEN tl
        ELSE Ok(<<"/", "*", SP>> \o ind.val \o pad12(cmd) \o tl.val
                \o <<SP, "*", "/">>)

\* the depth is clamped at 0 where append_code aborts
append_code_saturating(state, cmd, s, delta, indent, indentsize, oc) ==
    LET sum == state.next_cell + delta
        new_next == IF sum < 0 THEN 0 ELSE sum
        c == comment(cmd, indent, indentsize, oc)
    IN  IF c.err # "none" THEN c
        ELSE Ok([state EXCEPT
                   !.code = @ \o c.val \o <<SP>> \o s \o <<SP, "#">>
                              \o to_string(new_next) \o <<NL>>,
                   !.next_cell = new_next])

append_code(state, cmd, s, delta, indent, indentsize, oc) ==
    LET new_next == state.next_cell + delta
        c == comment(cmd, indent, indentsize, oc)
    IN  IF new_next < 0 THEN Fail("NegativeStackDepth")
        ELSE IF c.err # "none" THEN c
        ELSE Ok([state EXCEPT
                   !.code = @ \o c.val \o <<SP>> \o s \o <<SP, "#">>
                              \o to_string(new_next) \o <<NL>>,
                   !.next_cell = new_next])

-----------------------------------------------------------------------------
(* Instructions: enum Cmd.  A name is text; a body is a sequence of        *)
(* instructions, or Open, which stands for the instructions of a tree that *)
(* is not fixed in advance and are drawn one at a time as the loop of      *)
(* process_cmd_list asks for them.                                         *)

Clear == [op |-> "Clear"]
Copy == [op |-> "Copy"]
Get(v) == [op |-> "Get", var |-> v]
Set(v) == [op |-> "Set", var |-> v]
Read == [op |-> "Read"]
Write == [op |-> "Write"]
Push(n) == [op |-> "Push", n |-> n]
Inc == [op |-> "Inc"]
Dec == [op |-> "Dec"]
Add == [op |-> "Add"]
Sub == [op |-> "Sub"]
Mul == [op |-> "Mul"]
Addc(n) == [op |-> "Addc", n |-> n]
Subc(n) == [op |-> "Subc", n |-> n]
Bool == [op |-> "Bool"]
Stat(b) == [op |-> "Stat", body |-> b]
IfThen(c, t) == [op |-> "IfThen", cond |-> c, then_block |-> t]

Open == <<[op |-> "Open"]>>
IsOpen(cmds) == cmds # <<>> /\ Head(cmds).op = "Open"

Composite == {"Stat", "IfThen"}

\* the label, fragment and depth delta process_cmd hands to append_code
CopyCode == <<"[", ">", "+", ">", "+", "<", "<", "-", "]", ">", ">", "[", "<", "<", "+", ">", ">", "-", "]", "<">>
\* the multiplicand is not rebuilt after the first addition
MulCode_once == <<"<", "[", ">", ">", "+", "<", "<", "-", "]", ">", "[", ">", "[", "<", "<", "+", ">", ">", ">", "+", "<", "-", "]", "<", "-", "]", ">", "[", "-", "]", "<", "<">>
MulCode == <<"<", "[", ">", ">", "+", "<", "<", "-", "]", ">", "[", ">", "[", "<", "<", "+", ">", ">", ">", "+", "<", "-", "]", ">", "[", "<", "+", ">", "-", "]", "<", "<", "-", "]", ">", "[", "-", "]", "<", "<">>
BoolCode == <<"[", "[", "-", "]", ">", "+", "<", "]", ">", "[", "<", "+", ">", "-", "]", "<">>

Lowered(label, s, delta) == Ok([label |-> label, s |-> s, delta |-> delta])

\* the arm of process_cmd's match for an instruction that is not a block:
\* the label, the fragment and the depth delta it hands to append_code
lower(state, cmd, oc) ==
        CASE cmd.op = "Clear" -> Lowered(<<"c", "l", "e", "a", "r">>, <<"[", "-", "]">>, 0)
          [] cmd.op = "Copy" -> Lowered(<<"c", "o", "p", "y">>, CopyCode, 1)
          [] cmd.op = "Get" ->
                LET adr == adr_local(state, cmd.var, oc)
                    cr  == IF adr.err # "none" THEN adr
                           ELSE copy_right(1 + adr.val)
                IN  IF cr.err # "none" THEN cr
                    ELSE Lowered(<<"g", "e", "t", " ">> \o cmd.var, <<">">> \o cr.val, 1)
          [] cmd.op = "Set" ->
                LET adr == adr_local(state, cmd.var, oc)
                    ml  == IF adr.err # "none" THEN adr ELSE move_left(adr.val)
                IN  IF ml.err # "none" THEN ml
                    ELSE Lowered(<<"s", "e", "t", " ">> \o cmd.var, ml.val \o <<"<">>, -1)
          [] cmd.op = "Read" -> Lowered(<<"r", "e", "a", "d">>, <<">", ",">>, 1)
          [] cmd.op = "Write" -> Lowered(<<"w", "r", "i", "t", "e">>, <<".", "[", "-", "]", "<">>, -1)
          [] cmd.op = "Push" ->
                Lowered(<<"p", "u", "s", "h", " ">> \o to_string(cmd.n), <<">">> \o number(cmd.n), 1)
          [] cmd.op = "Inc" -> Lowered(<<"i", "n", "c">>, <<"+">>, 0)
          [] cmd.op = "Dec" -> Lowered(<<"d", "e", "c">>, <<"-">>, 0)
          [] cmd.op = "Add" -> Lowered(<<"a", "d", "d">>, <<"[", "<", "+", ">", "-", "]", "<">>, -1)
          [] cmd.op = "Sub" -> Lowered(<<"s", "u", "b">>, <<"[", "<", "-", ">", "-", "]", "<">>, -1)
          [] cmd.op = "Mul" -> Lowered(<<"m", "u", "l">>, MulCode, -1)
          [] cmd.op = "Addc" ->
                Lowered(<<"a", "d", "d", "c", " ">> \o to_string(cmd.n), replicate(cmd.n, <<"+">>), 0)
          [] cmd.op = "Subc" ->
                Lowered(<<"s", "u", "b", "c", " ">> \o to_string(cmd.n), replicate(cmd.n, <<"-">>), 0)
          [] cmd.op = "Bool" -> Lowered(<<"b", "o", "o", "l">>, BoolCode, 0)

process_cmd(state, cmd, indent, indentsize, oc) ==
    LET lw == lower(state, cmd, oc)
    IN  IF lw.err # "none" THEN lw
        ELSE append_code(state, lw.val.label, lw.val.s, lw.val.delta,
                         indent, indentsize, oc)

-----------------------------------------------------------------------------
(* The compiler as a machine: one frame per activation of process_cmd_list. *)
(* A frame holds the state the loop threads through process_cmd, the        *)
(* instructions still to come, the indent it was called with, the composite *)
(* instruction whose body it compiles and, for a then-sequence, cond_state. *)

NoResult == [env |-> NoEnv, next_cell |-> 0 - 1, code |-> <<>>]
NoCmd == [op |-> "None"]
NoLast == [cmd |-> NoCmd, depth |-> 0]

Frame(kind, st, cmds, indent, cmd, cond) ==
    [kind |-> kind, st |-> st, cmds |-> cmds, indent |-> indent,
     cmd |-> cmd, cond |-> cond]

\* the temporary state starts from an empty variable map
temp_state_no_env(state) ==
    [env |-> NoEnv, next_cell |-> state.next_cell, code |-> <<>>]

\* the temporary state starts from the enclosing output
temp_state_shared(state) ==
    [env |-> state.env, next_cell |-> state.next_cell, code |-> state.code]

\* a temporary state: the given env and next_cell, empty code
temp_state(state) ==
    [env |-> state.env, next_cell |-> state.next_cell, code |-> <<>>]

Top == frames[Len(frames)]
Parent == frames[Len(frames) - 1]
OC == build.overflow_checks

\* a panic: the process ends, no CompilerState is returned
Panic(e, c, d) ==
    /\ pc' = "panic"
    /\ err' = e
    /\ frames' = <<>>
    /\ last' = [cmd |-> c, depth |-> d]
    /\ UNCHANGED <<letidx, result>>

\* scope, lines 267-272: one turn of the loop over letvars
scope_let ==
    /\ pc = "let"
    /\ letidx < Len(args.letvars)
    /\ LET state == frames[1].st
           var == args.letvars[letidx + 1]
           idx == state.next_cell
           st1 == [state EXCEPT !.env = env_insert(@, var, idx)]
           r == append_code(st1, <<"l", "e", "t", " ">> \o var, <<">">>, 1,
                            args.indent, args.indentsize, OC)
       IN  IF r.err # "none"
           THEN Panic(r.err, NoCmd, idx) /\ UNCHANGED nodes
           ELSE /\ frames' = [frames EXCEPT ![1].st = r.val]
                /\ letidx' = letidx + 1
                /\ UNCHANGED <<pc, err, result, nodes, last>>
    /\ UNCHANGED <<args, build, opt, first, runVars>>

\* scope, lines 273-274: the blank line, then process_cmd_list over cmds
scope_body ==
    /\ pc = "let"
    /\ letidx = Len(args.letvars)
    /\ frames' = [frames EXCEPT ![1].st.code = @ \o <<NL>>]
    /\ pc' = "compile"
    /\ UNCHANGED <<args, build, opt, first, letidx, err, result, nodes, last, runVars>>

\* the instructions an open tree may hold
OpenNames == {<<"a">>, <<"b">>}
OpenCmds ==
    {Clear, Copy, Read, Write, Inc, Dec, Add, Sub, Mul, Bool,
     Push(1), Addc(1), Subc(1), Stat(Open), IfThen(Open, Open)}
    \cup {Get(v) : v \in OpenNames} \cup {Set(v) : v \in OpenNames}

\* what the loop of process_cmd_list may take next: <<instruction, the rest>>
Choices(f) ==
    IF IsOpen(f.cmds)
    THEN IF nodes < MaxNodes THEN {<<c, f.cmds>> : c \in OpenCmds} ELSE {}
    ELSE IF f.cmds # <<>> THEN {<<Head(f.cmds), Tail(f.cmds)>>} ELSE {}

\* the count of drawn instructions once the loop has taken its next one
Drawn == IF IsOpen(Top.cmds) THEN nodes + 1 ELSE nodes

\* the loop of process_cmd_list has no instruction left
AtEnd(f) == f.cmds = <<>> \/ IsOpen(f.cmds)

\* process_cmd on an instruction that is not a block, lines 160-191
process_simple ==
    /\ pc = "compile"
    /\ \E ch \in Choices(Top) :
         /\ ch[1].op \notin Composite
         /\ LET r == process_cmd(Top.st, ch[1], Top.indent, args.indentsize, OC)
            IN  IF r.err # "none"
                THEN Panic(r.err, ch[1], Top.st.next_cell)
                ELSE /\ frames' = [frames EXCEPT ![Len(frames)].st = r.val,
                                                 ![Len(frames)].cmds = ch[2]]
                     /\ last' = [cmd |-> ch[1], depth |-> Top.st.next_cell]
                     /\ UNCHANGED <<pc, err, letidx, result>>
    /\ nodes' = Drawn
    /\ UNCHANGED <<args, build, opt, first, runVars>>

\* Cmd::Stat, lines 193-200: the temporary state, then the body's list
enter_stat ==
    /\ pc = "compile"
    /\ \E ch \in Choices(Top) :
         /\ ch[1].op = "Stat"
         /\ frames' = Append([frames EXCEPT ![Len(frames)].cmds = ch[2]],
                             Frame("stat", temp_state(Top.st), ch[1].body,
                                   Top.indent + 1, ch[1], DefaultState))
    /\ nodes' = Drawn
    /\ UNCHANGED <<args, build, opt, first, pc, letidx, err, result, last, runVars>>

\* the body is only kept from ending below the depth it started at
stat_balanced_loose(inner_state, state) == inner_state.next_cell >= state.next_cell

\* line 201: the body left the depth where it found it
stat_balanced(inner_state, state) == inner_state.next_cell = state.next_cell

\* line 224: the condition left one cell more
cond_depth_ok(cond_state, state) == cond_state.next_cell = state.next_cell + 1

\* the then-sequence is only kept from ending below the condition's depth
then_depth_loose(then_state, cond_state) ==
    then_state.next_cell >= cond_state.next_cell

\* line 238: the then-sequence left the depth where the condition left it
then_depth_ok(then_state, cond_state) == then_state.next_cell = cond_state.next_cell

\* lines 205-213: the block's text, closed by the "end stat" comment
stat_code(inner, indent, indentsize, oc) ==
    LET c == comment(<<"e", "n", "d", " ", "s", "t", "a", "t">>, indent, indentsize, oc)
    IN  IF c.err # "none" THEN c ELSE Ok(<<NL>> \o inner.code \o c.val)

\* Cmd::Stat, lines 201-214: the body's list has returned
exit_stat ==
    /\ pc = "compile"
    /\ Top.kind = "stat"
    /\ AtEnd(Top)
    /\ LET inner_state == Top.st
           state == Parent.st
           indent == Parent.indent
           cs == stat_code(inner_state, indent, args.indentsize, OC)
           r == IF cs.err # "none" THEN cs
                ELSE append_code(state, <<"s", "t", "a", "t">>, cs.val, 0, indent,
                                 args.indentsize, OC)
       IN  IF ~stat_balanced(inner_state, state)
           THEN Panic("StackImbalance", Top.cmd, state.next_cell)
           ELSE IF r.err # "none"
           THEN Panic(r.err, Top.cmd, state.next_cell)
           ELSE /\ frames' = [SubSeq(frames, 1, Len(frames) - 1)
                                EXCEPT ![Len(frames) - 1].st = r.val]
                /\ last' = [cmd |-> Top.cmd, depth |-> state.next_cell]
                /\ UNCHANGED <<pc, err, letidx, result>>
    /\ UNCHANGED <<args, build, opt, first, nodes, runVars>>

\* Cmd::IfThen, lines 217-223: the temporary state, then the condition's list
enter_if ==
    /\ pc = "compile"
    /\ \E ch \in Choices(Top) :
         /\ ch[1].op = "IfThen"
         /\ frames' = Append([frames EXCEPT ![Len(frames)].cmds = ch[2]],
                             Frame("cond", temp_state(Top.st), ch[1].cond,
                                   Top.indent + 1, ch[1], DefaultState))
    /\ nodes' = Drawn
    /\ UNCHANGED <<args, build, opt, first, pc, letidx, err, result, last, runVars>>

\* Cmd::IfThen, lines 224-237: the condition's list has returned
cond_done ==
    /\ pc = "compile"
    /\ Top.kind = "cond"
    /\ AtEnd(Top)
    /\ LET cond_state == Top.st
           state == Parent.st
       IN  IF ~cond_depth_ok(cond_state, state)
           THEN Panic("ConditionDepthError", Top.cmd, state.next_cell)
           ELSE /\ frames' = [frames EXCEPT ![Len(frames)] =
                                Frame("then", temp_state(cond_state),
                                      Top.cmd.then_block, Parent.indent + 1,
                                      Top.cmd, cond_state)]
                /\ UNCHANGED <<pc, err, letidx, result, last>>
    /\ UNCHANGED <<args, build, opt, first, nodes, runVars>>

\* lines 241-258: the conditional's text, a loop around the then-sequence
if_code(cond_state, then_state, indent, indentsize, oc) ==
    LET ind == make_indent(indent, indentsize)
        c1 == comment(<<"t", "h", "e", "n">>, indent, indentsize, oc)
        c2 == comment(<<"e", "n", "d", " ", "i", "f">>, indent, indentsize, oc)
    IN  IF ind.err # "none" THEN ind
        ELSE IF c1.err # "none" THEN c1
        ELSE IF c2.err # "none" THEN c2
        ELSE Ok(<<NL>> \o cond_state.code \o c1.val \o ind.val
                \o <<SP, "[", NL>> \o then_state.code \o c2.val \o ind.val
                \o <<SP, SP, SP, "[", "-", "]", "]", "<">>)

\* Cmd::IfThen, lines 238-259: the then-sequence's list has returned
then_done ==
    /\ pc = "compile"
    /\ Top.kind = "then"
    /\ AtEnd(Top)
    /\ LET then_state == Top.st
           cond_state == Top.cond
           state == Parent.st
           indent == Parent.indent
           cs == if_code(cond_state, then_state, indent, args.indentsize, OC)
           r == IF cs.err # "none" THEN cs
                ELSE append_code(state, <<"i", "f">>, cs.val, 0, indent,
                                 args.indentsize, OC)
       IN  IF ~then_depth_ok(then_state, cond_state)
           THEN Panic("ThenDepthError", Top.cmd, state.next_cell)
           ELSE IF r.err # "none"
           THEN Panic(r.err, Top.cmd, state.next_cell)
           ELSE /\ frames' = [SubSeq(frames, 1, Len(frames) - 1)
                                EXCEPT ![Len(frames) - 1].st = r.val]
                /\ last' = [cmd |-> Top.cmd, depth |-> state.next_cell]
                /\ UNCHANGED <<pc, err, letidx, result>>
    /\ UNCHANGED <<args, build, opt, first, nodes, runVars>>

\* scope, line 274: process_cmd_list over cmds has returned
scope_return ==
    /\ pc = "compile"
    /\ Top.kind = "scope"
    /\ AtEnd(Top)
    /\ pc' = "done"
    /\ result' = Top.st
    /\ frames' = <<>>
    /\ UNCHANGED <<args, build, opt, first, letidx, err, nodes, last, runVars>>

Compile ==
    \/ scope_let
    \/ scope_body
    \/ process_simple
    \/ enter_stat
    \/ exit_stat
    \/ enter_if
    \/ cond_done
    \/ then_done
    \/ scope_return

-----------------------------------------------------------------------------
(* The tape executor *)

\* Progr::new, and the command a character opens (lines 142-149)
NoMatch == 0 - 1
Progr(op, plus, step) == [op |-> op, plus |-> plus, step |-> step, matching |-> NoMatch]

new_cmd_for(c) ==
    CASE c = "+" -> Progr("none", 1, 0)
      [] c = "-" -> Progr("none", 0 - 1, 0)
      [] c = ">" -> Progr("none", 0, 1)
      [] c = "<" -> Progr("none", 0, 0 - 1)
      [] OTHER -> Progr(c, 0, 0)

\* one turn of read_program's loop: acc = [program, last_char]
read_char(acc, c) ==
    LET prog == acc.program
        lastc == acc.last_char
        n == Len(prog)
        pm == lastc \in {"+", "-"} /\ c \in {"+", "-"}
        lr == lastc \in {">", "<"} /\ c \in {">", "<"}
        merge == n > 0 /\ prog[n].op = "none"
        new_cmd == lastc = "none" \/ (~pm /\ ~lr)
    IN  IF c \notin PrimitiveChars THEN acc
        ELSE IF pm /\ merge
        THEN [program |-> [prog EXCEPT ![n].plus = @ + (IF c = "+" THEN 1 ELSE 0 - 1)],
              last_char |-> c]
        ELSE IF ~pm /\ lr /\ merge
        THEN [program |-> [prog EXCEPT ![n].step = @ + (IF c = ">" THEN 1 ELSE 0 - 1)],
              last_char |-> c]
        ELSE IF new_cmd \/ n = 0
        THEN [program |-> Append(prog, new_cmd_for(c)), last_char |-> c]
        ELSE [program |-> prog, last_char |-> c]

RECURSIVE read_range(_, _, _, _)
\* the loop over contents[lo..hi], left to right, from the accumulator acc
read_range(contents, lo, hi, acc) ==
    IF lo > hi \/ Len(acc.program) < 0 THEN acc
    ELSE IF lo = hi THEN read_char(acc, contents[lo])
    ELSE LET mid == (lo + hi) \div 2
         IN  read_range(contents, mid + 1, hi, read_range(contents, lo, mid, acc))

read_program(contents) ==
    read_range(contents, 1, Len(contents),
               [program |-> <<>>, last_char |-> "none"]).program

\* one turn of find_matching_brackets' loop at index i (counted from 0):
\* acc = [program, stack, err]
match_at(acc, i) ==
    LET prog == acc.program
        stack == acc.stack
    IN  IF acc.err # "none" THEN acc
        ELSE IF prog[i + 1].op = "["
        THEN [acc EXCEPT !.stack = Append(stack, i)]
        ELSE IF prog[i + 1].op = "]"
        THEN IF stack = <<>> THEN [acc EXCEPT !.err = "UnbalancedExtra"]
             ELSE LET j == stack[Len(stack)]
                  IN  [acc EXCEPT !.program = [prog EXCEPT ![j + 1].matching = i,
                                                           ![i + 1].matching = j],
                                  !.stack = SubSeq(stack, 1, Len(stack) - 1)]
        ELSE acc

RECURSIVE match_range(_, _, _)
\* the loop over the indices lo..hi, in order, from the accumulator acc
match_range(lo, hi, acc) ==
    IF lo > hi \/ acc.err # "none" THEN acc
    ELSE IF lo = hi THEN match_at(acc, lo)
    ELSE LET mid == (lo + hi) \div 2
         IN  match_range(mid + 1, hi, match_range(lo, mid, acc))

find_matching_brackets(prog) ==
    LET r == match_range(0, Len(prog) - 1,
                         [program |-> prog, stack |-> <<>>, err |-> "none"])
    IN  IF r.err # "none" THEN Fail(r.err)
        ELSE IF r.stack # <<>> THEN Fail("UnbalancedMissing")
        ELSE Ok(r.program)

\* the bytes stdin may deliver
InputBytes == {0, 1, 10, 255}

get_input(byte) == IF opt.null /\ byte = 10 THEN 0 ELSE byte

\* u8 arithmetic: wrapping_add(plus as u8)
wrapping_add(v, plus) == (((v + plus) % 256) + 256) % 256

RunError(e) ==
    /\ pc' = "error"
    /\ rerr' = e
    /\ UNCHANGED <<tape, ptr, ip, written>>

\* main, lines 274-286: the compiler's output is read and its brackets matched
load ==
    /\ pc = "done"
    /\ opt.run
    /\ LET m == find_matching_brackets(read_program(result.code))
       IN  IF m.err # "none"
           THEN /\ pc' = "error"
                /\ rerr' = m.err
                /\ UNCHANGED <<program, tape, ptr, ip, written>>
           ELSE /\ pc' = "run"
                /\ program' = m.val
                /\ tape' = [k \in 1..opt.cells |-> 0]
                /\ ptr' = 0
                /\ ip' = 0
                /\ UNCHANGED <<written, rerr>>
    /\ UNCHANGED <<args, build, opt, first, compilerVars>>

\* the commands whose turn of the loop indexes tape[ptr]
accesses_cell(cmd) ==
    cmd.op \in {"[", "]", ".", ","} \/ (cmd.op = "none" /\ cmd.plus # 0)

\* interprete, lines 199-264: one turn of the loop
interprete ==
    /\ pc = "run"
    /\ ip < Len(program)
    /\ LET cmd == program[ip + 1]
           cell == tape[ptr + 1]
       IN  CASE ptr >= Len(tape) /\ accesses_cell(cmd) ->
                  \* tape[ptr] on a tape of no cells: the index panics
                  \/ RunError("IndexOutOfBounds")
                  \/ cmd.op = "," /\ RunError("InputError")
             [] cmd.op = "[" ->
                  /\ ip' = (IF cell = 0 THEN cmd.matching ELSE ip) + 1
                  /\ UNCHANGED <<pc, rerr, tape, ptr, written>>
             [] cmd.op = "]" ->
                  /\ ip' = (IF cell # 0 THEN cmd.matching ELSE ip) + 1
                  /\ UNCHANGED <<pc, rerr, tape, ptr, written>>
             [] cmd.op = "." ->
                  /\ written' = Append(written, cell)
                  /\ ip' = ip + 1
                  /\ UNCHANGED <<pc, rerr, tape, ptr>>
             [] cmd.op = "," ->
                  \/ \E byte \in InputBytes :
                       /\ tape' = [tape EXCEPT ![ptr + 1] = get_input(byte)]
                       /\ ip' = ip + 1
                       /\ UNCHANGED <<pc, rerr, ptr, written>>
                  \/ RunError("InputError")
             [] cmd.op = "none" /\ cmd.plus # 0 ->
                  IF opt.nowrap /\ cell + cmd.plus > 255
                  THEN RunError("IncrementOutOfRange")
                  ELSE IF opt.nowrap /\ cell + cmd.plus < 0
                  THEN RunError("DecrementOutOfRange")
                  ELSE /\ tape' = [tape EXCEPT ![ptr + 1] =
                                     IF opt.nowrap THEN cell + cmd.plus
                                     ELSE wrapping_add(cell, cmd.plus)]
                       /\ ip' = ip + 1
                       /\ UNCHANGED <<pc, rerr, ptr, written>>
             [] cmd.op = "none" /\ cmd.plus = 0 /\ cmd.step # 0 ->
                  IF ptr + cmd.step < 0 \/ ptr + cmd.step >= opt.cells
                  THEN RunError("PointerOutOfRange")
                  ELSE /\ ptr' = ptr + cmd.step
                       /\ ip' = ip + 1
                       /\ UNCHANGED <<pc, rerr, tape, written>>
             [] OTHER ->
                  /\ ip' = ip + 1
                  /\ UNCHANGED <<pc, rerr, tape, ptr, written>>
    /\ UNCHANGED <<args, build, opt, first, compilerVars, program>>

\* interprete, line 265: the loop is over
halt ==
    /\ pc = "run"
    /\ ip >= Len(program)
    /\ pc' = "halt"
    /\ UNCHANGED <<args, build, opt, first, compilerVars, runVars>>

Run == load \/ interprete \/ halt

-----------------------------------------------------------------------------
(* Inputs *)

LetVarLists == {<<>>, <<<<"a">>>>, <<<<"a">>, <<"b">>>>}
IndentSizes == {0, 4}
NoOpt == [cells |-> 0, nowrap |-> FALSE, null |-> FALSE, run |-> FALSE]

NoFirst == [pc |-> "none", err |-> "none", result |-> NoResult]

InitCompiler ==
    /\ pc = "let"
    /\ first = NoFirst
    /\ frames = <<Frame("scope", DefaultState, args.cmds, args.indent,
                        NoCmd, DefaultState)>>
    /\ letidx = 0
    /\ err = "none"
    /\ result = NoResult
    /\ nodes = 0
    /\ last = NoLast

InitRun ==
    /\ program = <<>>
    /\ tape = <<>>
    /\ ptr = 0
    /\ ip = 0
    /\ written = <<>>
    /\ rerr = "none"

\* trees: all of at most MaxNodes instructions, and those that fill the open
\* places of a conditional, of a block nested three deep, of a sequence that
\* begins with two pops and of a block that follows a push
Trees ==
    {Open,
     <<IfThen(Open, Open)>>,
     <<Stat(<<IfThen(<<Push(1)>>, <<Stat(Open)>>)>>)>>,
     <<Write, Write>> \o Open,
     <<Push(1), Stat(Open)>>}

Init ==
    /\ args \in [letvars : LetVarLists, cmds : Trees,
                 indent : 0..MaxIndent0, indentsize : IndentSizes]
    /\ build \in [overflow_checks : BOOLEAN]
    /\ opt = NoOpt
    /\ InitCompiler
    /\ InitRun

Next == Compile

Spec == Init /\ [][Next]_vars

-----------------------------------------------------------------------------
(* Steps of the compiler, told apart by what they leave *)

SimpleOps == {"Clear", "Copy", "Get", "Set", "Read", "Write", "Push", "Inc", "Dec",
              "Add", "Sub", "Mul", "Addc", "Subc", "Bool"}

\* the names scope declared
Declared == {args.letvars[k] : k \in 1..Len(args.letvars)}
SlotOf(v) == CHOOSE k \in 0..(Len(args.letvars) - 1) : args.letvars[k + 1] = v

\* process_cmd has handled last'.cmd, an instruction that is not a block
simple_step ==
    /\ pc = "compile"
    /\ last'.cmd.op \in SimpleOps
    /\ \/ pc' = "panic"
       \/ /\ pc' = "compile"
          /\ Len(frames') = Len(frames)
          /\ frames' # frames
          /\ frames'[Len(frames')].kind = Top.kind

\* the body of a stat has been compiled and its depth is checked
stat_exit_step ==
    /\ pc = "compile"
    /\ Top.kind = "stat"
    /\ \/ pc' = "panic" /\ last'.cmd.op = "Stat"
       \/ pc' = "compile" /\ Len(frames') = Len(frames) - 1

\* the condition of an if-then has been compiled and its depth is checked
cond_end_step ==
    /\ pc = "compile"
    /\ Top.kind = "cond"
    /\ \/ pc' = "panic" /\ last'.cmd.op = "IfThen"
       \/ pc' = "compile" /\ Len(frames') = Len(frames)
                          /\ frames'[Len(frames')].kind = "then"

\* the then-sequence of an if-then has been compiled and its depth is checked
then_end_step ==
    /\ pc = "compile"
    /\ Top.kind = "then"
    /\ \/ pc' = "panic" /\ last'.cmd.op = "IfThen"
       \/ pc' = "compile" /\ Len(frames') = Len(frames) - 1

IsPrefix(old, new) == Len(old) <= Len(new) /\ SubSeq(new, 1, Len(old)) = old
IsSuffix(t, new) ==
    Len(t) <= Len(new) /\ SubSeq(new, Len(new) - Len(t) + 1, Len(new)) = t
\* t occurs in new, in one piece, after the first `from` characters
OccursAfter(t, new, from) ==
    \E k \in (from + 1)..(Len(new) - Len(t) + 1) : SubSeq(new, k, k + Len(t) - 1) = t

\* new is old with one line appended that ends: fragment, " #", depth, newline
Appended(old, new, s, depth) ==
    /\ IsPrefix(old, new)
    /\ Len(new) - Len(old) > Len(s) + 3
    /\ IsSuffix(s \o <<SP, "#">> \o to_string(depth) \o <<NL>>, new)

Aborted == pc = "panic" /\ err # "none" /\ result = NoResult /\ frames = <<>>

-----------------------------------------------------------------------------
(* C1 *)

DepthNonNegative ==
    /\ \A k \in 1..Len(frames) :
         frames[k].st.next_cell >= 0 /\ frames[k].cond.next_cell >= 0
    /\ pc \notin {"let", "compile", "panic"} => result.next_cell >= 0

C1_AppendStep ==
    /\ simple_step =>
         LET n == Top.st.next_cell
             lw == lower(Top.st, last'.cmd, OC)
         IN  /\ last'.depth = n
             /\ (lw.err = "none" /\ n + lw.val.delta < 0) =>
                   pc' = "panic" /\ err' = "NegativeStackDepth"
             /\ pc' = "compile" =>
                   /\ lw.err = "none"
                   /\ n + lw.val.delta >= 0
                   /\ frames'[Len(frames')].st.next_cell = n + lw.val.delta
                   /\ Appended(Top.st.code, frames'[Len(frames')].st.code,
                               lw.val.s, n + lw.val.delta)
    /\ (pc = "let" /\ letidx' = letidx + 1) =>
         /\ frames'[1].st.next_cell = frames[1].st.next_cell + 1
         /\ Appended(frames[1].st.code, frames'[1].st.code, <<">">>,
                     frames[1].st.next_cell + 1)

\* C1: the depth is never negative; append_code at depth n with delta d
\* aborts when n + d < 0, and when it returns the depth is n + d and the
\* fragment is at the end of the output.
C1_DepthNeverNegative == []DepthNonNegative /\ [][C1_AppendStep]_vars

\* a pop at depth 0 has aborted the compilation
C1_Witness ==
    /\ pc = "panic" /\ err = "NegativeStackDepth"
    /\ last.cmd.op = "Write" /\ last.depth = 0

-----------------------------------------------------------------------------
(* C2 *)

C2_StatStep ==
    stat_exit_step =>
        IF Top.st.next_cell # Parent.st.next_cell
        THEN pc' = "panic" /\ err' = "StackImbalance"
        ELSE /\ pc' = "compile"
             /\ frames'[Len(frames')].st.next_cell = Parent.st.next_cell

\* C2: a stat whose body ends at a depth other than its entry depth d fails
\* with StackImbalance; one whose body ends at d compiles and leaves the
\* enclosing depth at d, at every nesting level.
C2_StatBalance == [][C2_StatStep]_vars

-----------------------------------------------------------------------------
(* C3 *)

C3_IfStep ==
    /\ cond_end_step =>
         IF Top.st.next_cell # Parent.st.next_cell + 1
         THEN pc' = "panic" /\ err' = "ConditionDepthError"
         ELSE /\ pc' = "compile"
              /\ frames'[Len(frames')].st.next_cell = Parent.st.next_cell + 1
              /\ frames'[Len(frames')].st.env = Parent.st.env
              /\ frames'[Len(frames')].cmds = Top.cmd.then_block
    /\ then_end_step =>
         IF Top.st.next_cell # Parent.st.next_cell + 1
         THEN pc' = "panic" /\ err' = "ThenDepthError"
         ELSE /\ pc' = "compile"
              /\ frames'[Len(frames')].st.next_cell = Parent.st.next_cell

\* C3: a condition that does not end at d + 1 fails with ConditionDepthError
\* before the then-sequence is compiled; else a then-sequence, compiled from
\* d + 1 with the same variable map, that does not end at d + 1 fails with
\* ThenDepthError; else the if-then leaves the enclosing depth at d.
C3_IfThenDepths == [][C3_IfStep]_vars

\* an if-then with instructions in its sequences has passed both checks
C3_Witness ==
    /\ pc = "compile"
    /\ args.cmds = <<IfThen(Open, Open)>>
    /\ nodes = 2
    /\ last.cmd.op = "IfThen"
    /\ Top.st.next_cell = last.depth

-----------------------------------------------------------------------------
(* C4 *)

EnvIsScopes ==
    pc = "compile" =>
       /\ DOMAIN frames[1].st.env = Declared
       /\ \A k \in 1..Len(frames) : frames[k].st.env = frames[1].st.env

C4_NameStep ==
    (simple_step /\ last'.cmd.op \in {"Get", "Set"}) =>
        ((pc' = "panic" /\ err' = "UndefinedVariable")
            <=> last'.cmd.var \notin Declared)

\* C4: get and set fail with UndefinedVariable exactly when the name was not
\* declared by scope; every nested body, condition and then-sequence is
\* compiled with the variable map of scope.
C4_UndefinedVariable == []EnvIsScopes /\ [][C4_NameStep]_vars

\* a get of a declared name has been compiled inside a nested body
C4_Witness ==
    /\ pc = "compile"
    /\ Len(frames) >= 2
    /\ last.cmd.op = "Get"
    /\ Top.st.code # <<>>
    /\ Top.st.next_cell = last.depth + 1

-----------------------------------------------------------------------------
(* C6 *)

RuleErrors == {"NegativeStackDepth", "UndefinedVariable", "StackImbalance",
               "ConditionDepthError", "ThenDepthError"}

\* get or set of a declared variable whose slot lies above the depth
AddressBelowSlot ==
    /\ last.cmd.op \in {"Get", "Set"}
    /\ last.cmd.var \in Declared
    /\ SlotOf(last.cmd.var) > last.depth

\* C6: compilation fails only where a depth rule is broken or a variable is
\* not declared, whatever the nesting depth of the blocks and the indent
\* arguments of scope.
C6_IndentHasNoEffect == pc = "panic" => (err \in RuleErrors \/ AddressBelowSlot)

-----------------------------------------------------------------------------
(* C9 *)

C9_FrameStep ==
    (pc = "compile" /\ pc' = "compile") =>
       \* the enclosing states stand still while a body is compiled
       /\ \A k \in 1..(Len(frames) - 1) :
            k < Len(frames') => frames'[k].st = frames[k].st
       \* a body starts on a clone: same map, same depth, empty output
       /\ Len(frames') = Len(frames) + 1 =>
            /\ frames'[Len(frames)].st = Top.st
            /\ frames'[Len(frames')].st =
                 [env |-> Top.st.env, next_cell |-> Top.st.next_cell, code |-> <<>>]
       \* a then-sequence starts from the condition's map and depth
       /\ (Len(frames') = Len(frames) /\ Top.kind = "cond"
             /\ frames'[Len(frames')].kind = "then") =>
            frames'[Len(frames')].st =
                 [env |-> Parent.st.env, next_cell |-> Top.st.next_cell, code |-> <<>>]
       \* a body never changes its own map
       /\ Len(frames') = Len(frames) =>
            frames'[Len(frames')].st.env = Top.st.env
       \* the text is spliced once the checks have passed, with delta 0
       /\ Len(frames') = Len(frames) - 1 =>
            LET p == Parent.st
                q == frames'[Len(frames')].st
            IN  /\ q.env = p.env
                /\ q.next_cell = p.next_cell
                /\ IsPrefix(p.code, q.code)
                /\ Len(q.code) > Len(p.code) + Len(Top.st.code)
                /\ OccursAfter(Top.st.code, q.code, Len(p.code))
                /\ Top.kind = "stat" => Top.st.next_cell = p.next_cell
                /\ Top.kind = "then" =>
                     /\ Top.st.next_cell = p.next_cell + 1
                     /\ Top.cond.next_cell = p.next_cell + 1
                     /\ OccursAfter(Top.cond.code, q.code, Len(p.code))

\* C9: a stat or if-then leaves the enclosing variable map alone, its body
\* is compiled on a clone with empty output that the enclosing output never
\* meets, and the body's text is appended to the enclosing output after the
\* depth checks, as one fragment with delta 0.
C9_BodyOnClone == [][C9_FrameStep]_vars

\* the text of a stat body has been spliced behind the enclosing output
C9_Witness ==
    /\ pc = "compile"
    /\ args.cmds = Open
    /\ Len(frames) = 1
    /\ last.cmd.op = "Stat"
    /\ nodes = 2
    /\ OccursAfter(<<"[", "-", "]", SP, "#">>, Top.st.code, 0)
    /\ OccursAfter(<<"e", "n", "d", SP, "s", "t", "a", "t">>, Top.st.code, 0)
    /\ Top.st.next_cell = Len(args.letvars)

-----------------------------------------------------------------------------
(* C10 *)

PanicIsFinal ==
    /\ pc = "panic" => err # "none" /\ result = NoResult /\ frames = <<>>
    /\ err # "none" => pc = "panic"
    /\ pc = "done" => err = "none" /\ result # NoResult

C10_FailStep ==
    /\ pc # "panic"
    /\ (simple_step /\ (lower(Top.st, last'.cmd, OC).err # "none"
          \/ Top.st.next_cell + lower(Top.st, last'.cmd, OC).val.delta < 0))
         => Aborted'
    /\ (stat_exit_step /\ Top.st.next_cell # Parent.st.next_cell) => Aborted'
    /\ (cond_end_step /\ Top.st.next_cell # Parent.st.next_cell + 1) => Aborted'
    /\ (then_end_step /\ Top.st.next_cell # Parent.st.next_cell + 1) => Aborted'

\* C10: a failure of any instruction at any nesting level ends the whole
\* compilation with no output; nothing is compiled after it.
C10_FailFast == []PanicIsFinal /\ [][C10_FailStep]_vars

\* a failure three blocks deep has ended the compilation
C10_Witness ==
    /\ pc = "panic"
    /\ err = "UndefinedVariable"
    /\ args.indent = 0
    /\ args.cmds = <<Stat(<<IfThen(<<Push(1)>>, <<Stat(Open)>>)>>)>>
    /\ result = NoResult

-----------------------------------------------------------------------------
(* C11 *)

\* the primitive characters of a text that are pointer advances
Advances(code) == Cardinality({k \in 1..Len(code) : code[k] = ">"})

\* the first n names hold the slots 0..n-1, in order, and the depth is n
SlotsInOrder(st, n) ==
    /\ st.next_cell = n
    /\ DOMAIN st.env = {args.letvars[k] : k \in 1..n}
    /\ \A k \in 1..n : st.env[args.letvars[k]] = k - 1
    /\ \A v \in DOMAIN st.env : st.env[v] < st.next_cell
    /\ \A v, w \in DOMAIN st.env : st.env[v] = st.env[w] => v = w
    /\ Advances(st.code) = n

ScopeSlots ==
    /\ pc = "let" => SlotsInOrder(frames[1].st, letidx)
    /\ (pc = "let" /\ letidx = 0) => frames[1].st = DefaultState
    /\ (pc = "compile" /\ last = NoLast /\ Len(frames) = 1) =>
          SlotsInOrder(frames[1].st, Len(args.letvars))

\* no body instruction is compiled before every name has its slot
BodyAfterLets ==
    (pc = "let" /\ pc' = "compile") =>
        /\ letidx = Len(args.letvars)
        /\ frames'[1].st.next_cell = Len(args.letvars)
        /\ frames'[1].st.env = frames[1].st.env

\* C11: scope starts from depth 0, no variables and no output; the i-th of
\* k names gets slot i with one pointer advance, and the depth is k before
\* the first body instruction is compiled, so no two names share a slot and
\* every slot is below the depth the body starts at.
C11_ScopeSlots == []ScopeSlots /\ [][BodyAfterLets]_vars

\* two names have their slots and the body is about to be compiled
C11_Witness ==
    /\ pc = "compile"
    /\ last = NoLast
    /\ args.letvars = <<<<"a">>, <<"b">>>>
    /\ frames[1].st.env[<<"a">>] = 0
    /\ frames[1].st.env[<<"b">>] = 1
    /\ frames[1].st.next_cell = 2

-----------------------------------------------------------------------------
(* C18 *)

\* C18: a get or set that compiles used an address, depth - slot, that is
\* not negative; a get or set of a declared variable whose slot is above the
\* depth fails to compile.
C18_AddressNonNegative == AddressBelowSlot => pc = "panic"

-----------------------------------------------------------------------------
(* C20 *)

\* a line of the text ends with the mark of a depth below d
DipsBelow(code, d) ==
    \E k \in 1..Len(code), j \in 0..(d - 1) :
       /\ code[k] = "#"
       /\ k + Len(to_string(j)) + 1 <= Len(code)
       /\ SubSeq(code, k + 1, k + Len(to_string(j))) = to_string(j)
       /\ code[k + Len(to_string(j)) + 1] = NL

C20_StatStep ==
    (stat_exit_step /\ pc' = "compile") =>
        ~DipsBelow(Top.st.code, Parent.st.next_cell)

\* C20: while the body of a stat that compiles is compiled, the depth never
\* goes below the depth the block was entered at.
C20_StatBodyFloor == [][C20_StatStep]_vars

-----------------------------------------------------------------------------
(* Compiled programs that are run: the compiler's output is handed to the  *)
(* executor.                                                               *)

A == <<"a">>
B == <<"b">>

\* cell values, with both ends of the byte range
CellVals == {0, 1, 2, 5, 255}
SmallVals == {0, 1, 3}

\* scope(["a","b"], [push(x), set("a"), get("a"), push(y), add, write])
SumTree(x, y) == <<Push(x), Set(A), Get(A), Push(y), Add, Write>>

\* both variables are given a value, then get(v) is followed by set(v)
RoundTripTree(x, y, v) ==
    <<Push(x), Set(A), Push(y), Set(B), Get(v), Set(v)>>

\* a is given the value c, then a conditional whose then-sequence writes 9
CondLists(c) == {<<Push(c)>>, <<Get(A)>>, <<Push(c), Bool>>, <<Read>>}
ThenLists == {<<Push(9), Write>>, <<Stat(<<Push(9), Write>>)>>}
CondTree(c, cond, then) == <<Push(c), Set(A), IfThen(cond, then)>>

\* both variables are given a value, then get(v)
GetTree(x, y, v) == <<Push(x), Set(A), Push(y), Set(B), Get(v)>>
\* a is given a value, y is pushed, then get(a) over it
GetOverTree(x, y) == <<Push(x), Set(A), Push(y), Get(A)>>

\* t is pushed, then set(v)
SetTree(t, v) == <<Push(t), Set(v)>>
\* b is given the value t and the depth is popped down to b's slot, then set(b)
SetAtSlotTree(t) == <<Push(t), Set(B), Write, Set(B)>>

\* 7, x and y are pushed, then add, sub or mul
ArithTree(x, y, op) == <<Push(7), Push(x), Push(y), op>>
MulVals == {0, 1, 2, 16, 255}
ArithPairs(op) ==
    IF op = Mul THEN {p \in MulVals \X MulVals : p[1] * p[2] <= 520}
    ELSE CellVals \X CellVals

RunInputs ==
    {<<<<A, B>>, SumTree(x, y)>> : x \in CellVals, y \in CellVals}
    \cup {<<<<A, B>>, GetTree(x, y, v)>> :
             x \in SmallVals, y \in SmallVals, v \in {A, B}}
    \cup {<<<<A>>, GetOverTree(x, y)>> : x \in SmallVals, y \in SmallVals}
    \cup {<<<<A, B>>, SetTree(t, v)>> : t \in CellVals, v \in {A, B}}
    \cup {<<<<A, B>>, SetAtSlotTree(t)>> : t \in CellVals}
    \cup UNION {{<<<<>>, ArithTree(p[1], p[2], op)>> : p \in ArithPairs(op)} :
                   op \in {Add, Sub, Mul}}
    \cup {<<<<A, B>>, RoundTripTree(x, y, v)>> :
             x \in SmallVals, y \in SmallVals, v \in {A, B}}
    \cup UNION {{<<<<A>>, CondTree(c, cond, then)>> :
                    cond \in CondLists(c), then \in ThenLists} : c \in CellVals}
    \cup {<<<<>>, <<IfThen(<<Push(c)>>, <<Push(9), Write>>)>>>> : c \in CellVals}

InitRunSpec ==
    /\ \E inp \in RunInputs :
          args = [letvars |-> inp[1], cmds |-> inp[2], indent |-> 0, indentsize |-> 4]
    /\ build \in [overflow_checks : BOOLEAN]
    /\ opt = [cells |-> TapeCells, nowrap |-> FALSE, null |-> FALSE, run |-> TRUE]
    /\ InitCompiler
    /\ InitRun

NextRun == Compile \/ Run

SpecRun == InitRunSpec /\ [][NextRun]_vars

-----------------------------------------------------------------------------
(* C5 *)

\* C5: get(v) followed by set(v) runs without a runtime error and leaves
\* every declared variable's cell as it was.
C5_GetSetRoundTrip ==
    \A x \in SmallVals, y \in SmallVals, v \in {A, B} :
       (args.letvars = <<A, B>> /\ args.cmds = RoundTripTree(x, y, v)) =>
          /\ pc \notin {"panic", "error"}
          /\ pc = "halt" => tape[1] = x /\ tape[2] = y

-----------------------------------------------------------------------------
(* C7 *)

\* C7: scope(["a","b"], [push(x), set("a"), get("a"), push(y), add, write])
\* compiles, and its output run on a zeroed tape with wraparound writes
\* once, the byte (x + y) mod 256.
C7_SumScenario ==
    \A x \in CellVals, y \in CellVals :
       (args.letvars = <<A, B>> /\ args.cmds = SumTree(x, y)) =>
          /\ pc \notin {"panic", "error"}
          /\ Len(written) <= 1
          /\ pc = "halt" => written = <<(x + y) % 256>>

\* push(5) and push(2): the run is over and has written 7
C7_Witness ==
    /\ pc = "halt"
    /\ args.cmds = SumTree(5, 2)
    /\ written = <<7>>

-----------------------------------------------------------------------------
(* C8 *)

\* the value the condition leaves on the stack when a holds c
CondValue(c, cond) == IF cond = <<Push(c), Bool>> /\ c # 0 THEN 1 ELSE c

\* C8: the then-sequence of a compiled if-then runs once when the condition
\* left a nonzero value and not at all when it left 0; afterwards the truth
\* cell is zero and the pointer is where it was before the if-then.
C8_ThenRunsOnce ==
    \A c \in CellVals : \A cond \in CondLists(c) \ {<<Read>>}, th \in ThenLists :
       (args.letvars = <<A>> /\ args.cmds = CondTree(c, cond, th)) =>
          /\ pc \notin {"panic", "error"}
          /\ pc = "halt" =>
               /\ written = IF CondValue(c, cond) # 0 THEN <<9>> ELSE <<>>
               /\ tape[3] = 0
               /\ ptr = 1

-----------------------------------------------------------------------------
(* C15 *)

\* C15: when the code of a compiled program has been run from a fresh tape,
\* the pointer is on the cell whose index is the compiler's depth and every
\* cell above it is zero, whatever the instructions were, get included.
C15_PointerAtDepth ==
    pc = "halt" =>
       /\ ptr = result.next_cell
       /\ \A k \in 1..Len(tape) : k > ptr + 1 => tape[k] = 0

-----------------------------------------------------------------------------
(* C16 *)

\* the tape with the given values in its first cells and zero above them
TapeOf(vals) == [k \in 1..TapeCells |-> IF k <= Len(vals) THEN vals[k] ELSE 0]

\* C16: run with the pointer on cell d and zero above it, the code of get(v)
\* leaves a copy of v's value in cell d + 1, v's slot as it was, the scratch
\* cell zero and every other cell as it was; the depth becomes d + 1.
C16_GetCopies ==
    /\ \A x \in SmallVals, y \in SmallVals, v \in {A, B} :
         (args.letvars = <<A, B>> /\ args.cmds = GetTree(x, y, v)) =>
            /\ pc \notin {"panic", "error"}
            /\ pc = "halt" =>
                 /\ tape = TapeOf(<<x, y, 0, IF v = A THEN x ELSE y>>)
                 /\ result.next_cell = 3
    /\ \A x \in SmallVals, y \in SmallVals :
         (args.letvars = <<A>> /\ args.cmds = GetOverTree(x, y)) =>
            /\ pc \notin {"panic", "error"}
            /\ pc = "halt" =>
                 /\ tape = TapeOf(<<x, 0, y, x>>)
                 /\ result.next_cell = 3

\* get(b) has run: b's value 3 is in its slot and in the new top cell
C16_Witness ==
    /\ pc = "halt"
    /\ args.cmds = GetTree(1, 3, B)
    /\ tape[2] = 3
    /\ tape[4] = 3

-----------------------------------------------------------------------------
(* C17 *)

\* C17: run with the pointer on the top cell d holding t, the code of set(v)
\* leaves t in v's slot, the former top cell zero unless it is the slot, the
\* pointer on d - 1 and every other cell as it was, also when the slot is d.
C17_SetStores ==
    /\ \A t \in CellVals, v \in {A, B} :
         (args.letvars = <<A, B>> /\ args.cmds = SetTree(t, v)) =>
            /\ pc \notin {"panic", "error"}
            /\ pc = "halt" =>
                 /\ tape = TapeOf(IF v = A THEN <<t, 0>> ELSE <<0, t>>)
                 /\ ptr = 2
    /\ \A t \in CellVals :
         (args.letvars = <<A, B>> /\ args.cmds = SetAtSlotTree(t)) =>
            /\ pc \notin {"panic", "error"}
            /\ pc = "halt" => (tape = TapeOf(<<0, t>>) /\ ptr = 0)

-----------------------------------------------------------------------------
(* C19 *)

ArithValue(x, y, op) ==
    IF op = Add THEN (x + y) % 256
    ELSE IF op = Sub THEN (x - y + 256) % 256
    ELSE (x * y) % 256

\* C19: with x below the top, y on top and zero above, the code of add, sub
\* and mul leaves (x + y), (x - y) and (x * y) mod 256 in the lower cell, the
\* pointer on it, the former top and the scratch cells zero and every other
\* cell as it was.
C19_Arithmetic ==
    \A op \in {Add, Sub, Mul} : \A p \in ArithPairs(op) :
       (args.letvars = <<>> /\ args.cmds = ArithTree(p[1], p[2], op)) =>
          /\ pc \notin {"panic", "error"}
          /\ pc = "halt" =>
               /\ tape = TapeOf(<<0, 7, ArithValue(p[1], p[2], op)>>)
               /\ ptr = 2

\* 16 * 16 has run: the product has wrapped to 0
C19_Witness ==
    /\ pc = "halt"
    /\ args.cmds = ArithTree(16, 16, Mul)
    /\ tape = TapeOf(<<0, 7, 0>>)
    /\ ptr = 2

-----------------------------------------------------------------------------
(* C21 *)

\* a name a caller may declare: scope takes any &str (line 265)
Brackets == <<"[", "+", "-", "]">>

\* the commands of a text, in order
Prims(text) == SelectSeq(text, LAMBDA c : c \in PrimitiveChars)

\* programs with each loop the compiler emits, on cells at both ends of the
\* byte range and on every byte a read may deliver; and one whose variable
\* is named "[+-]"
HaltVals == {0, 1, 255}
HaltInputs ==
    {<<<<A, B>>, SumTree(x, y)>> : x \in HaltVals, y \in {255}}
    \cup {<<<<A, B>>, RoundTripTree(x, 1, B)>> : x \in HaltVals}
    \cup UNION {{<<<<A>>, CondTree(c, cond, then)>> :
                    cond \in CondLists(c), then \in ThenLists} : c \in HaltVals}
    \cup {<<<<>>, ArithTree(p[1], p[2], Mul)>> :
             p \in {<<2, 3>>, <<255, 1>>, <<0, 5>>, <<3, 0>>}}
    \cup {<<<<>>, <<Read, Copy, Sub, Bool>>>>, <<<<>>, <<Read, Read, Add, Write>>>>}
    \cup {<<<<Brackets>>, <<Push(1), Set(Brackets)>>>>}

InitHalt ==
    /\ \E inp \in HaltInputs :
          args = [letvars |-> inp[1], cmds |-> inp[2], indent |-> 0, indentsize |-> 4]
    /\ build \in [overflow_checks : BOOLEAN]
    /\ opt = [cells |-> TapeCells, nowrap |-> FALSE, null |-> FALSE, run |-> TRUE]
    /\ InitCompiler
    /\ InitRun

\* load's step, told by the positions it joins: of the steps of NextRun only
\* load leaves "done", and it is possible in every such state
load_step == pc = "done" /\ opt.run /\ pc' \in {"run", "error"}

\* the process is one thread: while a step is possible, one is taken
SpecHalt ==
    /\ InitHalt
    /\ [][NextRun]_vars
    /\ WF_vars(Compile)
    /\ WF_pc(load_step)
    /\ WF_vars(interprete \/ halt)

\* the run is over: the stream's end, or the pointer left the tape (a read
\* that finds no byte ends the run as well, and so does a compilation that
\* aborts)
RunOver ==
    \/ pc \in {"halt", "panic"}
    \/ pc = "error" /\ rerr \in {"PointerOutOfRange", "InputError"}

\* C21: the output of a compiled program, run with wraparound, halts: at the
\* end of the stream or with the pointer-out-of-range error; every loop the
\* compiler emits is left after finitely many turns, whatever the cells hold.
\* Violated: the comment of "set [+-]" carries the loop "[+-]" into the
\* output, where it is met on the pushed 1 and never left.
C21_RunHalts == <>RunOver

\* no declared name holds a command character
PlainNames == \A i \in 1..Len(args.letvars) : Prims(args.letvars[i]) = <<>>

\* what does hold: with names free of command characters every run is over
\* after finitely many steps
C21_PlainRunHalts == PlainNames => <>RunOver

\* the run of the program whose variable is named "[+-]" is at the end of the
\* comment's loop, on a cell that holds 1
C21_InCommentLoop ==
    /\ pc = "run"
    /\ args.letvars = <<Brackets>>
    /\ program[ip + 1].op = "]"
    /\ tape[ptr + 1] = 1
    /\ program[ip].plus = 0
    /\ program[ip - 1].op = "["

-----------------------------------------------------------------------------
(* C23 *)

\* a line appended by append_code adds the commands of its fragment to the
\* commands of the text, and nothing else: for a let, and for an instruction
\* that is not a block
line_adds_fragment ==
    /\ (pc = "let" /\ letidx' = letidx + 1) =>
          Prims(frames'[1].st.code) = Prims(frames[1].st.code) \o <<">">>
    /\ (simple_step /\ pc' = "compile") =>
          Prims(frames'[Len(frames')].st.code) =
              Prims(Top.st.code) \o lower(Top.st, last'.cmd, OC).val.s

\* C23: the command characters of the output are those of the emitted
\* fragments, in order; the comment of a line (label with the variable's name
\* or the constant, and the depth) adds none, whatever name is declared.
\* Violated: the line of `let [+-]` adds "[", "+", "-", "]" and ">".
C23_CommentsAddNoCommand == [][line_adds_fragment]_vars

\* what does hold: the labels and depths add no command, the names alone can
C23_PlainNamesAddNoCommand == [][PlainNames => line_adds_fragment]_vars

\* the line of `let [+-]` is in the text: five commands, one of them emitted
C23_NameInText ==
    /\ args.letvars = <<Brackets>>
    /\ pc = "let"
    /\ letidx = 1
    /\ Prims(frames[1].st.code) = <<"[", "+", "-", "]", ">">>

-----------------------------------------------------------------------------
(* Program texts that are run: the executor is handed a file that no       *)
(* compilation wrote.  result.code stands for the file's contents.         *)

\* the characters of a text: the eight commands and one that is none
ExecChars == PrimitiveChars \cup {"x"}
Texts == UNION {[1..n -> ExecChars] : n \in 0..MaxText}

InitExec ==
    /\ args = [letvars |-> <<>>, cmds |-> <<>>, indent |-> 0, indentsize |-> 0]
    /\ build = [overflow_checks |-> TRUE]
    /\ opt \in [cells : 0..MaxCells, nowrap : BOOLEAN, null : BOOLEAN, run : {TRUE}]
    /\ pc = "done"
    /\ frames = <<>>
    /\ letidx = 0
    /\ err = "none"
    /\ \E text \in Texts : result = [DefaultState EXCEPT !.code = text]
    /\ nodes = 0
    /\ last = NoLast
    /\ first = NoFirst
    /\ InitRun

NextExec == Run

SpecExec == InitExec /\ [][NextExec]_vars

-----------------------------------------------------------------------------
(* C12 *)

PointerInRange == 0 <= ptr /\ ptr < opt.cells

\* a move to a cell outside the tape ends the run, the pointer where it was
MoveChecked ==
    (pc = "run" /\ ip < Len(program) /\ program[ip + 1].op = "none"
       /\ program[ip + 1].step # 0
       /\ (ptr + program[ip + 1].step < 0 \/ ptr + program[ip + 1].step >= opt.cells))
    => (pc' = "error" /\ rerr' = "PointerOutOfRange" /\ tape' = tape /\ ptr' = ptr)

\* C12: the executor accesses no cell outside 0..cells-1: a move out of that
\* range ends the run with the pointer-out-of-range error, and the pointer is
\* within the range in every state of a run, for every text and cell count.
C12_PointerInRange ==
    /\ [](pc \in {"run", "halt", "error"} /\ rerr \notin {"UnbalancedExtra", "UnbalancedMissing"}
            => PointerInRange)
    /\ [](rerr # "IndexOutOfBounds")
    /\ [][MoveChecked]_vars

-----------------------------------------------------------------------------
(* C13 *)

\* the texts made of '+', '-' and characters that are no command
Straight(text) == \A k \in 1..Len(text) : text[k] \in {"+", "-", "x"}

\* the value of cell 0 after the first n characters of a straight text
Level(text, n) ==
    Cardinality({k \in 1..n : text[k] = "+"}) - Cardinality({k \in 1..n : text[k] = "-"})

\* no '-' of the text meets 0 and no '+' meets 255, one character at a time
NeverWraps(text) == \A n \in 1..Len(text) : Level(text, n) \in 0..255

\* C13: with -w a run that executes '-' on a cell holding 0, or '+' on a
\* cell holding 255, ends with an out-of-range error: no run of such a text
\* reaches its end, whatever characters surround the '+' and '-'.
C13_NoSilentWrap ==
    (opt.nowrap /\ opt.cells > 0 /\ Straight(result.code) /\ pc = "halt")
        => NeverWraps(result.code)

-----------------------------------------------------------------------------
(* C22 *)

\* the texts without loops and reads
Linear(text) == \A k \in 1..Len(text) : text[k] \in {"+", "-", "<", ">", ".", "x"}

\* one turn of interprete's loop (lines 199-264) on the command cmd, as a
\* function of the run's state st = [tape, ptr, written, err]
step_cmd(st, cmd) ==
    LET cell == st.tape[st.ptr + 1]
    IN  IF st.err # "none" THEN st
        ELSE IF cmd.op = "."
        THEN [st EXCEPT !.written = Append(@, cell)]
        ELSE IF cmd.op = "none" /\ cmd.plus # 0
        THEN IF opt.nowrap /\ cell + cmd.plus > 255
             THEN [st EXCEPT !.err = "IncrementOutOfRange"]
             ELSE IF opt.nowrap /\ cell + cmd.plus < 0
             THEN [st EXCEPT !.err = "DecrementOutOfRange"]
             ELSE [st EXCEPT !.tape[st.ptr + 1] =
                      IF opt.nowrap THEN cell + cmd.plus
                      ELSE wrapping_add(cell, cmd.plus)]
        ELSE IF cmd.op = "none" /\ cmd.plus = 0 /\ cmd.step # 0
        THEN IF st.ptr + cmd.step < 0 \/ st.ptr + cmd.step >= opt.cells
             THEN [st EXCEPT !.err = "PointerOutOfRange"]
             ELSE [st EXCEPT !.ptr = @ + cmd.step]
        ELSE st

RECURSIVE by_character(_, _)
\* the first n characters of a text executed one at a time: each command
\* character is the command read_program opens for it (lines 142-149), the
\* others are passed over
by_character(text, n) ==
    IF n = 0
    THEN [tape |-> [k \in 1..opt.cells |-> 0], ptr |-> 0, written |-> <<>>,
          err |-> "none"]
    ELSE LET st == by_character(text, n - 1)
             c == text[n]
         IN  IF c \in PrimitiveChars THEN step_cmd(st, new_cmd_for(c)) ELSE st

\* C22: the aggregated execution ends as the execution one character at a
\* time does: with the same error, or with the same tape, pointer and written
\* bytes (stated for the texts without loops and reads, on a tape of at least
\* one cell).  Violated: "<>" on any tape ends without an error, the '<' alone
\* leaves the tape.
C22_AggregationRefines ==
    (pc \in {"halt", "error"} /\ opt.cells > 0 /\ Linear(result.code)) =>
        LET ref == by_character(result.code, Len(result.code))
        IN  IF ref.err # "none"
            THEN pc = "error" /\ rerr = ref.err
            ELSE /\ pc = "halt"
                 /\ tape = ref.tape
                 /\ ptr = ref.ptr
                 /\ written = ref.written

\* the texts whose runs of '+'/'-' and of '<'/'>' never pass a bound on the
\* way: no prefix takes the pointer off the tape, nor (without wraparound) a
\* cell out of a byte
NoExcursion(text) == by_character(text, Len(text)).err = "none"

\* what does hold: a text that one character at a time ends without an error
\* ends the same way when aggregated
C22_RefinesWithoutExcursion ==
    (pc \in {"halt", "error"} /\ opt.cells > 0 /\ Linear(result.code)
       /\ NoExcursion(result.code)) =>
        /\ pc = "halt"
        /\ tape = by_character(result.code, Len(result.code)).tape
        /\ ptr = by_character(result.code, Len(result.code)).ptr
        /\ written = by_character(result.code, Len(result.code)).written

\* "<>" has run to its end on a tape of one cell
C22_BackAndForth ==
    /\ pc = "halt"
    /\ result.code = <<"<", ">">>
    /\ opt.cells = 1
    /\ ptr = 0

-----------------------------------------------------------------------------
(* One call of scope after another, with the same arguments *)

\* the instructions of the trees that are compiled twice
TwiceCmds ==
    {Write, Push(1), Add, Get(<<"a">>), Set(<<"b">>),
     Stat(<<Push(1), Write>>), Stat(<<Push(1)>>),
     IfThen(<<Push(1)>>, <<Push(1), Write>>), IfThen(<<>>, <<>>)}
TwiceTrees == UNION {[1..n -> TwiceCmds] : n \in 0..MaxNodes}

\* scope is called again once the first call has returned or panicked
again ==
    /\ pc \in {"done", "panic"}
    /\ first = NoFirst
    /\ first' = [pc |-> pc, err |-> err, result |-> result]
    /\ pc' = "let"
    /\ frames' = <<Frame("scope", DefaultState, args.cmds, args.indent,
                         NoCmd, DefaultState)>>
    /\ letidx' = 0
    /\ err' = "none"
    /\ result' = NoResult
    /\ nodes' = 0
    /\ last' = NoLast
    /\ UNCHANGED <<args, build, opt, runVars>>

InitTwice ==
    /\ args \in [letvars : LetVarLists, cmds : TwiceTrees,
                 indent : 0..MaxIndent0, indentsize : IndentSizes]
    /\ build \in [overflow_checks : BOOLEAN]
    /\ opt = NoOpt
    /\ InitCompiler
    /\ InitRun

NextTwice == Compile \/ again

SpecTwice == InitTwice /\ [][NextTwice]_vars

-----------------------------------------------------------------------------
(* C14 *)

-----------------------------------------------------------------------------
(* move_right on its own: main prints move_right(1) (line 316), no         *)
(* instruction uses it.  Its text is run after a prelude that fills the     *)
(* first cells and puts the pointer on cell p.                              *)

MoveVals == {0, 1, 255}
MoveDists == {1, 2}
\* the values of cells 0, 1, 2; the pointer's cell; the distance
MoveInputs == (MoveVals \X MoveVals \X MoveVals) \X (0..2) \X MoveDists

RECURSIVE fill(_, _)
\* cells 0..k-1 are given vals, the pointer ends on cell k
fill(vals, k) ==
    IF k = 0 THEN <<>>
    ELSE fill(vals, k - 1) \o number(vals[k]) \o <<">">>

\* the prelude, then move_right(n) with the pointer on cell p
MoveText(vals, p, n) ==
    fill(vals, Len(vals)) \o replicate(Len(vals) - p, <<"<">>) \o move_right(n).val
MoveLen(vals, p, n) ==
    vals[1] + vals[2] + vals[3] + 3 + (3 - p) + Len(move_right(n).val)

InitMove ==
    /\ args = [letvars |-> <<>>, cmds |-> <<>>, indent |-> 0, indentsize |-> 0]
    /\ build = [overflow_checks |-> TRUE]
    /\ opt = [cells |-> TapeCells, nowrap |-> FALSE, null |-> FALSE, run |-> TRUE]
    /\ pc = "done"
    /\ frames = <<>>
    /\ letidx = 0
    /\ err = "none"
    /\ \E inp \in MoveInputs :
          result = [DefaultState EXCEPT !.code = MoveText(inp[1], inp[2], inp[3])]
    /\ nodes = 0
    /\ last = NoLast
    /\ first = NoFirst
    /\ InitRun

NextMove == Run

SpecMove == InitMove /\ [][NextMove]_vars

\* the run of MoveText(vals, p, n) is over
MoveRan(vals, p, n) ==
    /\ pc \in {"halt", "error"}
    /\ Len(result.code) = MoveLen(vals, p, n)
    /\ result.code = MoveText(vals, p, n)

-----------------------------------------------------------------------------
(* C24 *)

\* C24 as stated: move-right(n) run with the pointer on cell p leaves the
\* value of cell p in cell p + n and zero in cell p, for every n >= 1.
\* Violated: cell p + n is never touched.
C24_MovesToTheRight ==
    \A inp \in MoveInputs :
       MoveRan(inp[1], inp[2], inp[3]) =>
          /\ pc = "halt"
          /\ tape[inp[2] + inp[3] + 1] = inp[1][inp[2] + 1]
          /\ tape[inp[2] + 1] = 0

\* C24, amended: move-right(n) run with the pointer on cell p >= n moves the
\* value found n cells to the left into the current cell: afterwards cell p
\* holds the original value of cell p - n (its own value is discarded), cell
\* p - n is zero, every other cell is as it was and the pointer is on cell p,
\* for every n >= 1.
C24_MovesFromTheLeft ==
    \A inp \in MoveInputs :
       (MoveRan(inp[1], inp[2], inp[3]) /\ inp[2] >= inp[3]) =>
          /\ pc = "halt"
          /\ tape = [TapeOf(inp[1]) EXCEPT ![inp[2] + 1] = inp[1][inp[2] - inp[3] + 1],
                                           ![inp[2] - inp[3] + 1] = 0]
          /\ ptr = inp[2]

\* move_right(2) has run on cell 2 holding 1, with 255 in cell 0
C24_Witness ==
    /\ pc = "halt"
    /\ result.code = MoveText(<<255, 0, 1>>, 2, 2)
    /\ tape = TapeOf(<<0, 0, 255>>)
    /\ ptr = 2

====
